---- MODULE Spec2Model ----
(***************************************************************************)
(* FabriCore server: the connection registry, the command dispatcher and   *)
(* response correlator (services/agent_manager.py, api/v1/websocket.py),   *)
(* the tool executor with its server-side HITL policy check                *)
(* (services/tools.py) and the approval handlers (ui/main.py,              *)
(* ui/components/chat.py).                                                 *)
(***************************************************************************)
EXTENDS Integers, Sequences, FiniteSets, TLC

(* ------------------------------ bounds -------------------------------- *)
\* websocket connections accepted during a run
NumChannels == 2
\* send_command invocations during a run
MaxCalls == 2

Agents == {"a1", "a2"}
Channels == 1..NumChannels
Calls == 1..MaxCalls
\* A request identifier no send_command ever generated (uuid4 values are fresh).
BogusId == MaxCalls + 1
FrameIds == Calls \cup {BogusId}

\* UI handler coroutines (send_message, handle_approve) started during a run
MaxTasks == 3
\* user messages sent during a run
MaxChats == 1
\* the agent_max_turns setting of the agent loop (15 unless the user changes it)
MaxTurns == 2
\* entries in each list of a policy document
MaxEntries == 1

TaskIds == 1..MaxTasks
Sessions == {"s1"}

(* ------------------------------ state --------------------------------- *)
VARIABLES
    active_connections, \* AgentManager.active_connections: agent_id -> websocket
    agent_info,         \* AgentManager.agent_info: agent_id -> status of the AgentCreate
    pending_responses,  \* AgentManager.pending_responses: the request ids that are keys
    future,             \* the asyncio.Future created for each request id
    call,               \* each send_command invocation: position, target, channel
    observed,           \* what the caller of each send_command saw (return or raise)
    sent,               \* frames written with websocket.send_text, per channel
    audit,              \* AuditLog rows: request id -> status
    chan,               \* each websocket_endpoint handler: position, agent id, close code
    db_agents,          \* Agent rows of the store: agent id -> status
    replied,            \* request ids for which the listen loop has processed a reply frame
    security_policy,    \* Agent.security_policy_json: agent id -> stored policy document
    approvals,          \* PendingApproval rows, in the order they were inserted
    chat,               \* ChatMessage rows of each session, in the order they were saved
    task,               \* the UI handler coroutines: send_message and handle_approve
    pin,                \* the arguments of an execute call made on its own
    pout,               \* what that call decided and returned
    active_session_id,  \* the session the chat page shows (main.py nonlocal)
    has_unread          \* ChatSession.has_unread of each session

dispVars == <<active_connections, agent_info, pending_responses, future, call,
              observed, sent, audit, chan, db_agents, replied>>

execVars == <<security_policy, approvals, chat, task>>
polVars == <<pin, pout>>
viewVars == <<active_session_id, has_unread>>

vars == <<dispVars, execVars, polVars, viewVars>>

(* --------------------------- reply frames ----------------------------- *)
\* {"id":..,"result":{..}} or {"id":..,"error":{"code":..,"message":..}}
ApprovalCode == "-32001"
ErrorCodes == {ApprovalCode, "-32000"}
ErrorMessages == {"Action requires approval", "boom"}
ResultBody == [kind |-> "result", code |-> "none", message |-> "none"]
ErrorBody(c, m) == [kind |-> "error", code |-> c, message |-> m]
ReplyBodies == {ResultBody} \cup {ErrorBody(c, m) : c \in ErrorCodes, m \in ErrorMessages}
\* The bodies the dispatcher tells apart: a result, or an error and its message.
PlainBodies == {ResultBody, ErrorBody("-32000", "boom")}

NoFuture == [st |-> "none", val |-> "none"]
NoCall == [pc |-> "unissued", agent |-> "none", tool |-> "none"]

(* ------------------------------ Init ---------------------------------- *)
DispInit ==
    /\ active_connections = <<>>
    /\ agent_info = <<>>
    /\ pending_responses = {}
    /\ future = [c \in Calls |-> NoFuture]
    /\ call = [c \in Calls |-> NoCall]
    /\ observed = [c \in Calls |-> <<>>]
    /\ sent = [ch \in Channels |-> {}]
    /\ audit = <<>>
    /\ chan = [ch \in Channels |-> [pc |-> "new", agent |-> "unknown", code |-> "none"]]
    /\ db_agents = <<>>
    /\ replied = {}

\* tool_result before the first execute returns.
NoResult == [status |-> "none", message |-> "none", about |-> <<>>]
NoTask ==
    [pc |-> "idle", kind |-> "none", aid |-> 0, turn |-> 0, call |-> 0, tool |-> "none",
     params |-> <<>>, approved_by |-> "none", session |-> "none", result |-> NoResult]

ExecInit ==
    /\ security_policy = <<>>
    /\ approvals = <<>>
    /\ chat = [s \in Sessions |-> <<>>]
    /\ task = [t \in TaskIds |-> NoTask]

NoInput == [given |-> FALSE]
NoOutput == [made |-> FALSE]
NoOutputs == [first |-> NoOutput, second |-> NoOutput]
PolIdle == pin = NoInput /\ pout = NoOutputs

\* The chat page opens on no session; a new ChatSession has has_unread False.
ViewInit == active_session_id = "none" /\ has_unread = [s \in Sessions |-> FALSE]

Init == DispInit /\ ExecInit /\ PolIdle /\ ViewInit

Put(f, k, v) == [x \in DOMAIN f \cup {k} |-> IF x = k THEN v ELSE f[x]]
Drop(f, k) == [x \in DOMAIN f \ {k} |-> f[x]]

(* --------------------- services/agent_manager.py ---------------------- *)
\* Mutant: a registration that keeps an entry already present (dict.setdefault).
register_connection_keep_first(a, ch) ==
    /\ active_connections' = IF a \in DOMAIN active_connections
                              THEN active_connections ELSE Put(active_connections, a, ch)
    /\ agent_info' = Put(agent_info, a, "online")

\* AgentManager.register_connection: overwrite the entry of agent_id.
register_connection(a, ch) ==
    /\ active_connections' = Put(active_connections, a, ch)
    /\ agent_info' = Put(agent_info, a, "online")

\* AgentManager.disconnect: delete the entry of agent_id, whatever channel it holds.
disconnect(a) ==
    /\ active_connections' = Drop(active_connections, a)
    /\ agent_info' = IF a \in DOMAIN agent_info
                     THEN [agent_info EXCEPT ![a] = "offline"] ELSE agent_info

\* The request envelope of send_command: method tool.execute, params.tool_name,
\* params.arguments, id = params.execution_id = the fresh request id.
Envelope(c, tool, args) ==
    [id |-> c, method |-> "tool.execute", tool_name |-> tool, arguments |-> args]

\* websocket.send_text raises once the server has closed the socket.
SendRaises(ws) == chan[ws].pc = "closed"

\* Mutant: the AuditLog row is written before the connection is looked up.
send_command_audit_first(c, a, tool, args) ==
    /\ audit' = Put(audit, c, "pending")
    /\ IF a \notin DOMAIN active_connections
       THEN /\ call' = [call EXCEPT ![c] = [pc |-> "done", agent |-> a, tool |-> tool]]
            /\ observed' = [observed EXCEPT ![c] = Append(@, "not_connected")]
            /\ UNCHANGED <<pending_responses, future, sent>>
       ELSE /\ future' = [future EXCEPT ![c] = [st |-> "pending", val |-> "none"]]
            /\ call' = [call EXCEPT ![c] = [pc |-> "waiting", agent |-> a, tool |-> tool]]
            /\ pending_responses' = pending_responses \cup {c}
            /\ sent' = [sent EXCEPT ![active_connections[a]] = @ \cup {Envelope(c, tool, args)}]
            /\ UNCHANGED observed

\* AgentManager.send_command up to its first suspension (await wait_for), or to
\* its end when it raises before that.  db is passed by every caller in tools.py.
send_command(c, a, tool, args) ==
    IF a \notin DOMAIN active_connections
    THEN /\ call' = [call EXCEPT ![c] = [pc |-> "done", agent |-> a, tool |-> tool]]
         /\ observed' = [observed EXCEPT ![c] = Append(@, "not_connected")]
         /\ UNCHANGED <<pending_responses, future, sent, audit>>
    ELSE LET ws == active_connections[a] IN
         /\ audit' = Put(audit, c, "pending")
         /\ future' = [future EXCEPT ![c] = [st |-> "pending", val |-> "none"]]
         /\ IF SendRaises(ws)
            THEN \* the exception leaves through finally, which deletes the entry
                 /\ call' = [call EXCEPT ![c] = [pc |-> "done", agent |-> a, tool |-> tool]]
                 /\ observed' = [observed EXCEPT ![c] = Append(@, "send_failed")]
                 /\ UNCHANGED <<pending_responses, sent>>
            ELSE /\ call' = [call EXCEPT ![c] = [pc |-> "waiting", agent |-> a, tool |-> tool]]
                 /\ pending_responses' = pending_responses \cup {c}
                 /\ sent' = [sent EXCEPT ![ws] = @ \cup {Envelope(c, tool, args)}]
                 /\ UNCHANGED observed

\* Mutant: the future is awaited without a timeout.
TimerFires_never(c) ==
    /\ FALSE
    /\ UNCHANGED <<active_connections, agent_info, pending_responses, future, call,
                   observed, sent, audit, chan, db_agents, replied>>
    /\ UNCHANGED <<execVars, polVars, viewVars>>

\* asyncio.wait_for(future, timeout=30.0): the timer fires while the future is
\* pending and cancels it; the waiting coroutine is resumed in a later step.
TimerFires(c) ==
    /\ call[c].pc = "waiting"
    /\ future[c].st = "pending"
    /\ future' = [future EXCEPT ![c].st = "cancelled"]
    /\ UNCHANGED <<active_connections, agent_info, pending_responses, call, observed,
                   sent, audit, chan, db_agents, replied>>
    /\ UNCHANGED <<execVars, polVars, viewVars>>

\* What the caller sees when wait_for ends: the result, the exception set by
\* resolve_response, or "Command execution timed out".
Outcome(f) ==
    CASE f.st = "result" -> "success"
      [] f.st = "exception" -> "remote_error"
      [] f.st = "cancelled" -> "timeout"

\* Mutant: send_command returns without its finally clause.
Forget_nothing(c) == pending_responses

\* finally: del self.pending_responses[request_id]
Forget(c) == pending_responses \ {c}

\* Mutant: the entry is deleted on return only, not when send_command raises.
resume_send_command_leaks(c) ==
    /\ call[c].pc = "waiting"
    /\ future[c].st # "pending"
    /\ observed' = [observed EXCEPT ![c] = Append(@, Outcome(future[c]))]
    /\ pending_responses' = IF Outcome(future[c]) = "success" THEN Forget(c)
                                                             ELSE pending_responses
    /\ call' = [call EXCEPT ![c].pc = "done"]

\* send_command resumed after wait_for: return or raise, then the finally clause.
resume_send_command(c) ==
    /\ call[c].pc = "waiting"
    /\ future[c].st # "pending"
    /\ observed' = [observed EXCEPT ![c] = Append(@, Outcome(future[c]))]
    /\ pending_responses' = Forget(c)
    /\ call' = [call EXCEPT ![c].pc = "done"]

\* future.set_result / set_exception raise InvalidStateError on a done future.
ResolveRaises(id) == id \in pending_responses /\ future[id].st # "pending"

Resolved(body) ==
    IF body.kind = "error"
    THEN [st |-> "exception", val |-> body.message]
    ELSE [st |-> "result", val |-> "output"]

\* Mutant: a reply with an unknown id is given to a call that is still waiting.
resolve_response_fallback(id, body) ==
    future' = IF id \in pending_responses /\ future[id].st = "pending"
              THEN [future EXCEPT ![id] = Resolved(body)]
              ELSE [c \in Calls |-> IF c \in pending_responses /\ future[c].st = "pending"
                                     THEN Resolved(body) ELSE future[c]]

\* Mutant: replies are taken in dispatch order, so a reply resolves the oldest
\* outstanding call.
resolve_response_in_order(id, body) ==
    future' = IF id \in pending_responses /\ future[id].st = "pending"
              THEN LET oldest == CHOOSE c \in pending_responses :
                                    /\ future[c].st = "pending"
                                    /\ \A d \in pending_responses :
                                          future[d].st = "pending" => c <= d
                   IN [future EXCEPT ![oldest] = Resolved(body)]
              ELSE future

\* AgentManager.resolve_response: set the future of a known id; an unknown id is
\* only logged ("Received response for unknown request").
resolve_response(id, body) ==
    future' = IF id \in pending_responses /\ future[id].st = "pending"
              THEN [future EXCEPT ![id] = Resolved(body)]
              ELSE future

(* ------------------------------ strings ------------------------------- *)
\* A string is a sequence of pieces; a piece is one blank or a maximal run of
\* non-blank characters.
Blank == " "

\* str.lower() on a piece
Lower(p) ==
    CASE p = "RM" -> "rm"
      [] p = "Uname" -> "uname"
      [] p = "Run_Command" -> "run_command"
      [] OTHER -> p

StrLower(s) == [i \in DOMAIN s |-> Lower(s[i])]

RECURSIVE LStrip(_)
LStrip(s) == IF s # <<>> /\ Head(s) = Blank THEN LStrip(Tail(s)) ELSE s

RECURSIVE RStrip(_)
RStrip(s) == IF s # <<>> /\ s[Len(s)] = Blank THEN RStrip(SubSeq(s, 1, Len(s) - 1)) ELSE s

\* str.strip()
Strip(s) == RStrip(LStrip(s))

RECURSIVE TakeWord(_)
TakeWord(s) == IF s = <<>> \/ Head(s) = Blank THEN <<>> ELSE <<Head(s)>> \o TakeWord(Tail(s))

\* s.strip().split()[0] if s.strip() else ""
FirstToken(s) == TakeWord(Strip(s))

(* ------------------------- services/tools.py -------------------------- *)
\* [t['name'] for t in AGENT_TOOLS]
ValidTools ==
    <<"list_agents", "run_command", "get_system_info", "list_files", "read_file",
      "get_agent_details">>
ToolSet == {ValidTools[i] : i \in DOMAIN ValidTools}
\* A name the generator invents.
UnknownToolName == "delete_everything"

\* DataManager.get_agent_policy: the stored document, or the permissive default.
DefaultPolicy == [hitl_enabled |-> FALSE, blocked_commands |-> {}, requires_approval_for |-> {}]
NoPolicy == [stored |-> FALSE]
\* A policy record whose read raises: the query fails, or the JSON does not parse.
Unreadable == [stored |-> TRUE, readable |-> FALSE]
get_agent_policy(stored) == IF stored = NoPolicy THEN DefaultPolicy ELSE stored

\* [x.strip().lower() for x in entries if x.strip()]
Normalized(entries) == {StrLower(Strip(x)) : x \in {y \in entries : Strip(y) # <<>>}}

TOOL_TO_COMMANDS(tool) ==
    CASE tool = "list_files" -> << <<"ls">> >>
      [] tool = "read_file" -> << <<"cat">> >>
      [] tool = "get_system_info" -> << <<"uname">>, <<"sysinfo">> >>
      [] OTHER -> <<>>

\* Mutant: the first token of a run_command line is compared as it was typed.
ToolCommands_as_typed(tool, params) ==
    IF tool = "run_command" /\ "command" \in DOMAIN params
    THEN LET shell_cmd == FirstToken(params.command)
         IN IF shell_cmd # <<>> THEN <<shell_cmd>> ELSE <<>>
    ELSE TOOL_TO_COMMANDS(tool)

\* The shell command(s) the tool will execute, in the order they are checked.
ToolCommands(tool, params) ==
    IF tool = "run_command" /\ "command" \in DOMAIN params
    THEN LET shell_cmd == StrLower(FirstToken(params.command))
         IN IF shell_cmd # <<>> THEN <<shell_cmd>> ELSE <<>>
    ELSE TOOL_TO_COMMANDS(tool)

HasAgentId(params) == "agent_id" \in DOMAIN params

Result(status, message, about) == [status |-> status, message |-> message, about |-> about]
Proceed == Result("none", "proceed", <<>>)

\* The first command of cmds that is in entries (0 when there is none).
FirstIn(cmds, entries) ==
    IF \E i \in DOMAIN cmds : cmds[i] \in entries
    THEN CHOOSE i \in DOMAIN cmds : cmds[i] \in entries /\ \A j \in 1..(i - 1) : cmds[j] \notin entries
    ELSE 0

\* Mutant: blocked_commands is checked before requires_approval_for.
hitl_check_blocked_first(policy, tool, params) ==
    LET requires_approval == Normalized(policy.requires_approval_for)
        blocked_commands == Normalized(policy.blocked_commands)
        tool_commands == ToolCommands(tool, params)
        agent_id == params.agent_id
    IN  IF <<Lower(tool)>> \in blocked_commands \/ FirstIn(tool_commands, blocked_commands) # 0
        THEN Result("error", "blocked by security policy", <<tool, agent_id>>)
        ELSE IF <<Lower(tool)>> \in requires_approval \/ FirstIn(tool_commands, requires_approval) # 0
        THEN Result("paused", "requires human approval", <<tool, agent_id>>)
        ELSE Proceed

\* Mutant: run_command is matched on its whole command line, not its first token.
hitl_check_whole_line(policy, tool, params) ==
    LET requires_approval == Normalized(policy.requires_approval_for)
        blocked_commands == Normalized(policy.blocked_commands)
        line == IF tool = "run_command" /\ "command" \in DOMAIN params
                THEN StrLower(Strip(params.command)) ELSE <<>>
        agent_id == params.agent_id
    IN  IF <<Lower(tool)>> \in requires_approval \/ line \in requires_approval
        THEN Result("paused", "requires human approval", <<tool, agent_id>>)
        ELSE IF <<Lower(tool)>> \in blocked_commands \/ line \in blocked_commands
        THEN Result("error", "blocked by security policy", <<tool, agent_id>>)
        ELSE Proceed

\* Mutant: blocked_commands is not consulted.
hitl_check_no_block(policy, tool, params) ==
    LET requires_approval == Normalized(policy.requires_approval_for)
        tool_commands == ToolCommands(tool, params)
        agent_id == params.agent_id
    IN  IF <<Lower(tool)>> \in requires_approval \/ FirstIn(tool_commands, requires_approval) # 0
        THEN Result("paused", "requires human approval", <<tool, agent_id>>)
        ELSE Proceed

\* The checks of an enabled policy: requires_approval_for before blocked_commands,
\* the tool name before the resolved commands.
hitl_check(policy, tool, params) ==
    LET requires_approval == Normalized(policy.requires_approval_for)
        blocked_commands == Normalized(policy.blocked_commands)
        tool_commands == ToolCommands(tool, params)
        agent_id == params.agent_id
    IN  IF <<Lower(tool)>> \in requires_approval
        THEN Result("paused", "tool requires human approval", <<tool, agent_id>>)
        ELSE IF FirstIn(tool_commands, requires_approval) # 0
        THEN Result("paused", "command requires human approval",
                    <<tool_commands[FirstIn(tool_commands, requires_approval)], agent_id>>)
        ELSE IF <<Lower(tool)>> \in blocked_commands
        THEN Result("error", "tool is blocked by security policy", <<tool, agent_id>>)
        ELSE IF FirstIn(tool_commands, blocked_commands) # 0
        THEN Result("error", "command is blocked by security policy",
                    <<tool_commands[FirstIn(tool_commands, blocked_commands)], agent_id>>)
        ELSE Proceed

\* Mutant: the lists are consulted whether or not hitl_enabled is set.
policy_check_ignores_switch(stored, tool, params, approved_by) ==
    IF HasAgentId(params) /\ approved_by = "none" /\ tool # "list_agents"
    THEN hitl_check(get_agent_policy(stored), tool, params)
    ELSE Proceed

\* 2. Server-side HITL Policy Check: skipped without an agent_id, with approved_by
\* set and for list_agents; stored is the policy record of the target agent.
\* An exception in the check is logged (except Exception: logger.warning) and
\* execute goes on.
policy_check(stored, tool, params, approved_by) ==
    IF HasAgentId(params) /\ approved_by = "none" /\ tool # "list_agents"
    THEN IF stored = Unreadable
         THEN Proceed
         ELSE LET policy == get_agent_policy(stored)
              IN IF policy.hitl_enabled THEN hitl_check(policy, tool, params) ELSE Proceed
    ELSE Proceed

Return(result) ==
    [kind |-> "return", result |-> result, agent |-> "none", tool_name |-> "none",
     arguments |-> "none"]
DispatchPlan(a, tool_name, arguments) ==
    [kind |-> "dispatch", result |-> Proceed, agent |-> a, tool_name |-> tool_name,
     arguments |-> arguments]

Missing(keys) == Return(Result("error", "Missing required parameters", keys))
\* except Exception as e: ... {"status": "error", "message": f"Execution failed: {e}"}
Failed(why) == Return(Result("error", "Execution failed", <<why>>))

\* _run_command, _list_files, _read_file pass approved_by to send_command, whose
\* signature is (agent_id, tool_name, arguments, db=None): the call raises
\* TypeError before anything is sent.  _run_command first takes command.split()[0].
UnexpectedKeyword == "send_command() got an unexpected keyword argument 'approved_by'"

\* The try block of execute: argument validation, then the tool's method up to
\* its call of send_command.  agents is the set of Agent rows of the store.
tool_method(tool, params, agents) ==
    CASE tool = "list_agents" ->
            Return(Result("none", "success", <<"agents", agents>>))
      [] tool = "run_command" ->
            IF ~HasAgentId(params) \/ "command" \notin DOMAIN params
            THEN Missing(<<"agent_id", "command">>)
            ELSE IF FirstToken(params.command) = <<>>
                 THEN Failed("list index out of range")
                 ELSE Failed(UnexpectedKeyword)
      [] tool = "get_system_info" ->
            IF ~HasAgentId(params) THEN Missing(<<"agent_id">>)
            ELSE DispatchPlan(params.agent_id, "get_system_info", "{}")
      [] tool \in {"list_files", "read_file"} ->
            IF ~HasAgentId(params) \/ "path" \notin DOMAIN params
            THEN Missing(<<"agent_id", "path">>)
            ELSE Failed(UnexpectedKeyword)
      [] tool = "get_agent_details" ->
            IF ~HasAgentId(params) THEN Missing(<<"agent_id">>)
            ELSE IF params.agent_id \in agents
                 THEN Return(Result("none", "success", <<"agent", params.agent_id>>))
                 ELSE Return(Result("none", "not found", <<"agent", params.agent_id>>))

UnknownTool(tool) ==
    Return(Result("error", "Tool does not exist. Available tools", <<tool>> \o ValidTools))

\* Mutant: the policy check comes before the validation of the tool name.
execute_policy_first(stored, agents, tool, params, approved_by) ==
    LET decision == policy_check(stored, tool, params, approved_by)
    IN IF decision # Proceed
       THEN Return(decision)
       ELSE IF tool \notin ToolSet THEN UnknownTool(tool) ELSE tool_method(tool, params, agents)

\* ToolExecutor.execute up to its first suspension: the result it returns, or
\* the send_command it makes.
execute(stored, agents, tool, params, approved_by) ==
    IF tool \notin ToolSet
    THEN UnknownTool(tool)
    ELSE LET decision == policy_check(stored, tool, params, approved_by)
         IN IF decision # Proceed
            THEN Return(decision)
            ELSE tool_method(tool, params, agents)

(* ------------------------ api/v1/websocket.py ------------------------- *)
Closed(ch, code) == [chan EXCEPT ![ch] = [pc |-> "closed", agent |-> @.agent, code |-> code]]

\* The first frame is not valid JSON, its params string does not decode, or the
\* AgentCreate validation fails: close(1003).  Its method is not agent.identify:
\* close(1008).  receive_text raises: close(1011).  Nothing is registered.
RejectCodes == {"1003", "1008", "1011"}

\* Mutant: a rejected first frame still leaves a registry entry for agent a1.
HandshakeRejected_registers(ch, code) ==
    /\ chan[ch].pc = "new"
    /\ \A x \in Channels : x < ch => chan[x].pc # "new"
    /\ chan' = Closed(ch, code)
    /\ register_connection("a1", ch)
    /\ UNCHANGED <<pending_responses, future, call, observed, sent, audit,
                   db_agents, replied>>
    /\ UNCHANGED <<execVars, polVars, viewVars>>

HandshakeRejected(ch, code) ==
    /\ chan[ch].pc = "new"
    /\ \A x \in Channels : x < ch => chan[x].pc # "new"
    /\ chan' = Closed(ch, code)
    /\ UNCHANGED <<active_connections, agent_info, pending_responses, future, call,
                   observed, sent, audit, db_agents, replied>>
    /\ UNCHANGED <<execVars, polVars, viewVars>>

\* DataManager.register_agent: insert or update the Agent row, status online.
register_agent(a) == db_agents' = Put(db_agents, a, "online")

\* DataManager.update_agent_status
update_agent_status(a, st) ==
    db_agents' = IF a \in DOMAIN db_agents THEN [db_agents EXCEPT ![a] = st] ELSE db_agents

\* A valid agent.identify: register in memory, record the agent in the store,
\* answer "registered", enter the listen loop.
HandshakeAccepted(ch, a) ==
    /\ chan[ch].pc = "new"
    /\ \A x \in Channels : x < ch => chan[x].pc # "new"
    /\ register_connection(a, ch)
    /\ register_agent(a)
    /\ chan' = [chan EXCEPT ![ch] = [pc |-> "listening", agent |-> a, code |-> "none"]]
    /\ UNCHANGED <<pending_responses, future, call, observed, sent, audit,
                   replied>>
    /\ UNCHANGED <<execVars, polVars, viewVars>>

\* A valid agent.identify, but data_manager.register_agent raises after the
\* in-memory registration: close(1011) and return.
HandshakeStoreFails(ch, a) ==
    /\ chan[ch].pc = "new"
    /\ \A x \in Channels : x < ch => chan[x].pc # "new"
    /\ register_connection(a, ch)
    /\ chan' = [chan EXCEPT ![ch] = [pc |-> "closed", agent |-> a, code |-> "1011"]]
    /\ UNCHANGED <<pending_responses, future, call, observed, sent, audit, db_agents,
                   replied>>
    /\ UNCHANGED <<execVars, polVars, viewVars>>

\* The request ids an agent can put in a reply: those sent to it on any of its
\* channels, and ids the server never generated.
KnownIds(ch) ==
    {f.id : f \in UNION {sent[c2] : c2 \in {x \in Channels : chan[x].agent = chan[ch].agent}}}
        \cup {BogusId}

\* The AuditLog update that follows resolve_response in the listen loop.
AuditUpdate(id, body) ==
    IF id \in DOMAIN audit
    THEN [audit EXCEPT ![id] = IF body.kind = "error" THEN "error" ELSE "success"]
    ELSE audit

\* Mutant: the listen loop gives resolve_response only the replies to requests
\* that were sent on its own connection.
Listen_own_requests(ch, id, body) ==
    /\ chan[ch].pc = "listening"
    /\ id \in KnownIds(ch)
    /\ replied' = replied \cup ({id} \cap Calls)
    /\ IF ResolveRaises(id) \/ ~(\E f \in sent[ch] : f.id = id)
       THEN UNCHANGED <<future, audit>>
       ELSE /\ resolve_response(id, body)
            /\ audit' = AuditUpdate(id, body)
    /\ UNCHANGED <<active_connections, agent_info, pending_responses, call, observed,
                   sent, chan, db_agents>>
    /\ UNCHANGED <<execVars, polVars, viewVars>>

\* One iteration of the listen loop on a frame with "id" and "result" or "error".
Listen(ch, id, body) ==
    /\ chan[ch].pc = "listening"
    /\ id \in KnownIds(ch)
    /\ replied' = replied \cup ({id} \cap Calls)
    /\ IF ResolveRaises(id)
       THEN \* except Exception: "Error processing message"; the audit code is skipped
            UNCHANGED <<future, audit>>
       ELSE /\ resolve_response(id, body)
            /\ audit' = AuditUpdate(id, body)
    /\ UNCHANGED <<active_connections, agent_info, pending_responses, call, observed,
                   sent, chan, db_agents>>
    /\ UNCHANGED <<execVars, polVars, viewVars>>

\* Mutant: the disconnect fails the calls outstanding on the connection.
Disconnected_fails_pending(ch) ==
    /\ chan[ch].pc = "listening"
    /\ disconnect(chan[ch].agent)
    /\ update_agent_status(chan[ch].agent, "offline")
    /\ chan' = Closed(ch, "peer")
    /\ future' = [c \in Calls |->
                    IF c \in pending_responses /\ future[c].st = "pending"
                          /\ call[c].agent = chan[ch].agent
                    THEN [st |-> "exception", val |-> "Agent disconnected"]
                    ELSE future[c]]
    /\ UNCHANGED <<pending_responses, call, observed, sent, audit, replied>>
    /\ UNCHANGED <<execVars, polVars, viewVars>>

\* receive_text raises WebSocketDisconnect (or any error) in the listen loop.
Disconnected(ch) ==
    /\ chan[ch].pc = "listening"
    /\ disconnect(chan[ch].agent)
    /\ update_agent_status(chan[ch].agent, "offline")
    /\ chan' = Closed(ch, "peer")
    /\ UNCHANGED <<pending_responses, future, call, observed, sent, audit,
                   replied>>
    /\ UNCHANGED <<execVars, polVars, viewVars>>

(* ------------------- the dispatcher's specification ------------------- *)
\* ToolExecutor._get_system_info under the default (permissive) policy.
Dispatch(c, a) ==
    /\ call[c].pc = "unissued"
    /\ \A d \in Calls : d < c => call[d].pc # "unissued"
    /\ send_command(c, a, "get_system_info", "{}")
    /\ UNCHANGED <<active_connections, agent_info, chan, db_agents, replied>>
    /\ UNCHANGED <<execVars, polVars, viewVars>>

Resume(c) ==
    /\ resume_send_command(c)
    /\ UNCHANGED <<active_connections, agent_info, future, sent, audit, chan,
                   db_agents, replied>>
    /\ UNCHANGED <<execVars, polVars, viewVars>>

Next ==
    \/ \E ch \in Channels, code \in RejectCodes : HandshakeRejected(ch, code)
    \/ \E ch \in Channels, a \in Agents : HandshakeAccepted(ch, a)
    \/ \E ch \in Channels, a \in Agents : HandshakeStoreFails(ch, a)
    \/ \E ch \in Channels, id \in FrameIds, body \in PlainBodies : Listen(ch, id, body)
    \/ \E ch \in Channels : Disconnected(ch)
    \/ \E c \in Calls, a \in Agents : Dispatch(c, a)
    \/ \E c \in Calls : TimerFires(c)
    \/ \E c \in Calls : Resume(c)

Spec == Init /\ [][Next]_vars

\* The event loop runs every timer that is due and every coroutine that is ready.
LiveSpec ==
    Spec /\ \A c \in Calls : WF_vars(TimerFires(c)) /\ WF_vars(Resume(c))

(* ------------------ the executor, the loop, approvals ----------------- *)
\* The policy document get_agent_policy reads for an agent.
StoredPolicy(a) == IF a \in DOMAIN security_policy THEN security_policy[a] ELSE NoPolicy
PolicyFor(params) == IF HasAgentId(params) THEN StoredPolicy(params.agent_id) ELSE NoPolicy

\* The message of the exception send_command raised.
ExceptionMessage(c, outcome) ==
    CASE outcome = "not_connected" -> "Agent not connected"
      [] outcome = "send_failed" -> "send_text failed"
      [] outcome = "timeout" -> "Command execution timed out"
      [] outcome = "remote_error" -> future[c].val

\* "Action requires approval" in error_msg or "-32001" in error_msg
MentionsApproval(msg) == msg = "Action requires approval"

PausedByAgent == Result("paused", "Action requires approval. Admin notified.", <<>>)

\* Mutant: a timeout of send_command is taken for a result.
ExecuteResult_timeout_lost(c, a, outcome) ==
    IF outcome \in {"success", "timeout"}
    THEN Result("none", "success", <<"info", a>>)
    ELSE IF MentionsApproval(ExceptionMessage(c, outcome))
         THEN PausedByAgent
         ELSE Result("error", "Execution failed", <<ExceptionMessage(c, outcome)>>)

\* execute after send_command returned or raised with the given outcome.
ExecuteResult(c, a, outcome) ==
    IF outcome = "success"
    THEN Result("none", "success", <<"info", a>>)
    ELSE IF MentionsApproval(ExceptionMessage(c, outcome))
         THEN PausedByAgent
         ELSE Result("error", "Execution failed", <<ExceptionMessage(c, outcome)>>)

PendingApproval(tool, params, session, writer) ==
    [status |-> "pending", tool_name |-> tool, arguments |-> params, session_id |-> session,
     writer |-> writer]

\* The PendingApproval rows after execute: its except branch inserts one when the
\* remote error asks for approval (execution_id is then a fresh uuid).
ExecutorWrites(rows, tool, params, result) ==
    IF result = PausedByAgent
    THEN Append(rows, PendingApproval(tool, params, "none", "executor"))
    ELSE rows

ChatMessage(role, type, approval_id, content) ==
    [role |-> role, type |-> type, approval_id |-> approval_id, content |-> content]
save_chat_message(s, m) == chat' = [chat EXCEPT ![s] = Append(@, m)]

\* _user_still_here: the operator is still viewing the chat the loop is pinned to.
user_still_here(s) == active_session_id = s
mark_session_unread(s) == has_unread' = [has_unread EXCEPT ![s] = TRUE]
mark_session_read(s) == has_unread' = [has_unread EXCEPT ![s] = FALSE]

\* Mutant: the loop stops on a pause without inserting the PendingApproval.
LoopContinues_no_row(t, rec, tool, params, result, rows) ==
    IF result.status = "paused"
    THEN /\ approvals' = rows
         /\ save_chat_message(rec.session,
                ChatMessage("assistant", "approval_request", Len(rows) + 1, "pending"))
         /\ IF user_still_here(rec.session)
            THEN UNCHANGED has_unread
            ELSE mark_session_unread(rec.session)
         /\ task' = [task EXCEPT ![t] = [rec EXCEPT !.pc = "paused", !.result = result]]
    ELSE /\ approvals' = rows
         /\ UNCHANGED <<chat, has_unread>>
         /\ task' = [task EXCEPT ![t] =
                [rec EXCEPT !.turn = @ + 1, !.result = result,
                            !.pc = IF rec.turn + 1 >= MaxTurns THEN "aborted" ELSE "generate"]]

\* Mutant: the loop allows one turn more than max_agent_turns.
LoopContinues_one_more(t, rec, tool, params, result, rows) ==
    IF result.status = "paused"
    THEN /\ approvals' = Append(rows, PendingApproval(tool, params, rec.session, "loop"))
         /\ save_chat_message(rec.session,
                ChatMessage("assistant", "approval_request", Len(rows) + 1, "pending"))
         /\ IF user_still_here(rec.session)
            THEN UNCHANGED has_unread
            ELSE mark_session_unread(rec.session)
         /\ task' = [task EXCEPT ![t] = [rec EXCEPT !.pc = "paused", !.result = result]]
    ELSE /\ approvals' = rows
         /\ UNCHANGED <<chat, has_unread>>
         /\ task' = [task EXCEPT ![t] =
                [rec EXCEPT !.turn = @ + 1, !.result = result,
                            !.pc = IF rec.turn + 1 > MaxTurns THEN "aborted" ELSE "generate"]]

\* Mutant: the loop marks nothing unread when it pauses.
LoopContinues_unmarked(t, rec, tool, params, result, rows) ==
    IF result.status = "paused"
    THEN /\ approvals' = Append(rows, PendingApproval(tool, params, rec.session, "loop"))
         /\ save_chat_message(rec.session,
                ChatMessage("assistant", "approval_request", Len(rows) + 1, "pending"))
         /\ UNCHANGED has_unread
         /\ task' = [task EXCEPT ![t] = [rec EXCEPT !.pc = "paused", !.result = result]]
    ELSE /\ approvals' = rows
         /\ UNCHANGED <<chat, has_unread>>
         /\ task' = [task EXCEPT ![t] =
                [rec EXCEPT !.turn = @ + 1, !.result = result,
                            !.pc = IF rec.turn + 1 >= MaxTurns THEN "aborted" ELSE "generate"]]

\* _run_agent_loop after tool_executor.execute returned result: a pause inserts
\* the PendingApproval and saves the approval request, then the loop ends; any
\* other result is appended to loop_messages and the next turn starts.
LoopContinues(t, rec, tool, params, result, rows) ==
    IF result.status = "paused"
    THEN /\ approvals' = Append(rows, PendingApproval(tool, params, rec.session, "loop"))
         /\ save_chat_message(rec.session,
                ChatMessage("assistant", "approval_request", Len(rows) + 1, "pending"))
         /\ IF user_still_here(rec.session)
            THEN UNCHANGED has_unread
            ELSE mark_session_unread(rec.session)
         /\ task' = [task EXCEPT ![t] = [rec EXCEPT !.pc = "paused", !.result = result]]
    ELSE /\ approvals' = rows
         /\ UNCHANGED <<chat, has_unread>>
         /\ task' = [task EXCEPT ![t] =
                [rec EXCEPT !.turn = @ + 1, !.result = result,
                            !.pc = IF rec.turn + 1 >= MaxTurns THEN "aborted" ELSE "generate"]]

\* Mutant: handle_approve saves the result and returns without starting the loop.
ApproveContinues_no_resume(t, rec, result, rows) ==
    /\ approvals' = rows
    /\ save_chat_message(rec.session,
           ChatMessage("assistant", "approval_result", rec.aid, result.status))
    /\ UNCHANGED has_unread
    /\ task' = [task EXCEPT ![t] =
           [rec EXCEPT !.pc = "final", !.turn = 0, !.approved_by = "none",
                       !.result = result]]

\* handle_approve after tool_executor.execute returned result: save the
\* approval_result message, rebuild the history, start _run_agent_loop.
ApproveContinues(t, rec, result, rows) ==
    /\ approvals' = rows
    /\ save_chat_message(rec.session,
           ChatMessage("assistant", "approval_result", rec.aid, result.status))
    /\ UNCHANGED has_unread
    /\ task' = [task EXCEPT ![t] =
           [rec EXCEPT !.pc = "generate", !.turn = 0, !.approved_by = "none",
                       !.result = result]]

\* for turn in range(5): the turns of one scheduled run.
JobTurns == 5

\* run_scheduled_job after tool_executor.execute returned result: a pause inserts the
\* PendingApproval and saves the approval request (its metadata has no status),
\* and the run ends; after the last turn the run saves that it stopped.  The
\* session is marked unread however the run ends.
JobContinues(t, rec, tool, params, result, rows) ==
    IF result.status = "paused"
    THEN /\ approvals' = Append(rows, PendingApproval(tool, params, rec.session, "scheduler"))
         /\ save_chat_message(rec.session,
                ChatMessage("assistant", "approval_request", Len(rows) + 1, "none"))
         /\ mark_session_unread(rec.session)
         /\ task' = [task EXCEPT ![t] = [rec EXCEPT !.pc = "paused", !.result = result]]
    ELSE /\ approvals' = rows
         /\ task' = [task EXCEPT ![t] =
                [rec EXCEPT !.turn = @ + 1, !.result = result,
                            !.pc = IF rec.turn + 1 >= JobTurns THEN "aborted" ELSE "generate"]]
         /\ IF rec.turn + 1 >= JobTurns
            THEN /\ save_chat_message(rec.session, ChatMessage("assistant", "text", 0, "stopped"))
                 /\ mark_session_unread(rec.session)
            ELSE UNCHANGED <<chat, has_unread>>

Continues(t, rec, tool, params, approved_by, result, rows) ==
    IF rec.kind = "scheduled"
    THEN JobContinues(t, rec, tool, params, result, ExecutorWrites(rows, tool, params, result))
    ELSE IF approved_by = "none"
    THEN LoopContinues(t, rec, tool, params, result, ExecutorWrites(rows, tool, params, result))
    ELSE ApproveContinues(t, rec, result, ExecutorWrites(rows, tool, params, result))

\* The index of the next send_command invocation (0 when the run has used them all).
NextCall ==
    IF \E c \in Calls : call[c].pc = "unissued"
    THEN CHOOSE c \in Calls :
            call[c].pc = "unissued" /\ \A d \in Calls : d < c => call[d].pc # "unissued"
    ELSE 0

\* send_command raises before it waits.
RaisesAtOnce(a) == a \notin DOMAIN active_connections \/ SendRaises(active_connections[a])
OutcomeAtOnce(a) == IF a \notin DOMAIN active_connections THEN "not_connected" ELSE "send_failed"

\* tool_executor.execute(tool, params, approved_by) called by coroutine t, up to
\* the suspension in send_command, or through to what the caller does with the
\* result when execute returns without waiting.  rec is the coroutine's record
\* and rows the PendingApproval table at the call.
Execute(t, rec, tool, params, approved_by, rows) ==
    LET plan == execute(PolicyFor(params), DOMAIN db_agents, tool, params, approved_by) IN
    IF plan.kind = "return"
    THEN /\ Continues(t, rec, tool, params, approved_by, plan.result, rows)
         /\ UNCHANGED <<pending_responses, future, call, observed, sent, audit>>
    ELSE /\ NextCall # 0
         /\ send_command(NextCall, plan.agent, plan.tool_name, plan.arguments)
         /\ IF RaisesAtOnce(plan.agent)
            THEN Continues(t, rec, tool, params, approved_by,
                           ExecuteResult(NextCall, plan.agent, OutcomeAtOnce(plan.agent)), rows)
            ELSE /\ task' = [task EXCEPT ![t] =
                        [rec EXCEPT !.pc = "execute", !.call = NextCall, !.tool = tool,
                                    !.params = params, !.approved_by = approved_by]]
                 /\ approvals' = rows
                 /\ UNCHANGED <<chat, has_unread>>

\* The least coroutine slot not yet used.
Fresh(t) == task[t].pc = "idle" /\ \A u \in TaskIds : u < t => task[u].pc # "idle"

\* send_message: create the session when the page shows none, save the user
\* message and start _run_agent_loop pinned to the session.
StartChat(t, s) ==
    /\ Fresh(t)
    /\ Cardinality({u \in TaskIds : task[u].kind = "chat"}) < MaxChats
    /\ IF active_session_id = "none" THEN chat[s] = <<>> ELSE s = active_session_id
    /\ active_session_id' = s
    /\ save_chat_message(s, ChatMessage("user", "text", 0, "user"))
    /\ task' = [task EXCEPT ![t] = [NoTask EXCEPT !.pc = "generate", !.kind = "chat",
                                                  !.session = s]]
    /\ UNCHANGED <<dispVars, security_policy, approvals, polVars, has_unread>>

\* What llm_service.generate can return: plain content, or a tool call.
FinalAnswer == [tool_call |-> FALSE, tool |-> "none", params |-> <<>>]
ToolCall(tool, params) == [tool_call |-> TRUE, tool |-> tool, params |-> params]
Generations ==
    {FinalAnswer,
     ToolCall("run_command", [agent_id |-> "a1", command |-> <<"rm", " ", "-rf">>]),
     ToolCall("get_system_info", [agent_id |-> "a1"]),
     ToolCall(UnknownToolName, [agent_id |-> "a1"])}

\* One turn of _run_agent_loop: generate returns g.
Generate(t, g) ==
    /\ task[t].pc = "generate"
    /\ task[t].kind # "scheduled"
    /\ IF ~g.tool_call
       THEN /\ save_chat_message(task[t].session, ChatMessage("assistant", "text", 0, "final"))
            /\ IF user_still_here(task[t].session)
               THEN UNCHANGED has_unread
               ELSE mark_session_unread(task[t].session)
            /\ task' = [task EXCEPT ![t].pc = "final"]
            /\ UNCHANGED <<pending_responses, future, call, observed, sent, audit, approvals>>
       ELSE Execute(t, task[t], g.tool, g.params, "none", approvals)
    /\ UNCHANGED <<active_connections, agent_info, chan, db_agents, replied,
                   security_policy, polVars, active_session_id>>

\* The approval cards of the chat: one for each saved approval_request message,
\* rendered with its buttons whenever the message metadata says "pending".
HasCard(aid) ==
    \E s \in Sessions : \E i \in DOMAIN chat[s] :
        chat[s][i].type = "approval_request" /\ chat[s][i].approval_id = aid
            /\ chat[s][i].content = "pending"

\* Mutant: handle_approve executes the tool without marking the row approved.
Approve_unmarked(t, aid) ==
    /\ Fresh(t)
    /\ HasCard(aid)
    /\ aid \in DOMAIN approvals
    /\ Execute(t, [NoTask EXCEPT !.kind = "approve", !.aid = aid,
                                 !.session = approvals[aid].session_id],
               approvals[aid].tool_name, approvals[aid].arguments, "admin", approvals)
    /\ UNCHANGED <<active_connections, agent_info, chan, db_agents, replied,
                   security_policy, polVars, active_session_id>>

\* handle_approve: the row exists; set it approved, commit, execute its tool.
Approve(t, aid) ==
    /\ Fresh(t)
    /\ HasCard(aid)
    /\ aid \in DOMAIN approvals
    /\ Execute(t, [NoTask EXCEPT !.kind = "approve", !.aid = aid,
                                 !.session = approvals[aid].session_id],
               approvals[aid].tool_name, approvals[aid].arguments, "admin",
               [approvals EXCEPT ![aid].status = "approved"])
    /\ UNCHANGED <<active_connections, agent_info, chan, db_agents, replied,
                   security_policy, polVars, active_session_id>>

\* Mutant: handle_deny starts the agent loop again after the denied message.
Deny_and_resume(t, aid) ==
    /\ Fresh(t)
    /\ HasCard(aid)
    /\ aid \in DOMAIN approvals
    /\ approvals' = [approvals EXCEPT ![aid].status = "rejected"]
    /\ save_chat_message(approvals[aid].session_id,
           ChatMessage("assistant", "approval_result", aid, "denied"))
    /\ task' = [task EXCEPT ![t] = [NoTask EXCEPT !.pc = "generate", !.kind = "deny", !.aid = aid,
                                                  !.session = approvals[aid].session_id]]
    /\ UNCHANGED <<dispVars, security_policy, polVars, viewVars>>

\* handle_deny: the row exists; set it rejected, commit, save the denied message.
Deny(t, aid) ==
    /\ Fresh(t)
    /\ HasCard(aid)
    /\ aid \in DOMAIN approvals
    /\ approvals' = [approvals EXCEPT ![aid].status = "rejected"]
    /\ save_chat_message(approvals[aid].session_id,
           ChatMessage("assistant", "approval_result", aid, "denied"))
    /\ task' = [task EXCEPT ![t] = [NoTask EXCEPT !.pc = "denied", !.kind = "deny", !.aid = aid,
                                                  !.session = approvals[aid].session_id]]
    /\ UNCHANGED <<dispVars, security_policy, polVars, viewVars>>

\* execute resumed when its send_command ends.
ExecResume(t) ==
    /\ task[t].pc = "execute"
    /\ resume_send_command(task[t].call)
    /\ Continues(t, task[t], task[t].tool, task[t].params, task[t].approved_by,
                 ExecuteResult(task[t].call, call[task[t].call].agent,
                               Outcome(future[task[t].call])),
                 approvals)
    /\ UNCHANGED <<active_connections, agent_info, future, sent, audit, chan, db_agents,
                   replied, security_policy, polVars, active_session_id>>

\* The scheduled runs of one behaviour.
MaxJobs == 1

\* run_scheduled_job: the run writes to a new session or to the job's persistent one,
\* saves the trigger message and starts its loop.
RunJob(t, s) ==
    /\ Fresh(t)
    /\ Cardinality({u \in TaskIds : task[u].kind = "scheduled"}) < MaxJobs
    /\ save_chat_message(s, ChatMessage("user", "scheduled_trigger", 0, "job"))
    /\ task' = [task EXCEPT ![t] = [NoTask EXCEPT !.pc = "generate", !.kind = "scheduled",
                                                  !.session = s]]
    /\ UNCHANGED <<dispVars, security_policy, approvals, polVars, viewVars>>

\* One turn of run_scheduled_job: generate returns g.
JobGenerate(t, g) ==
    /\ task[t].pc = "generate"
    /\ task[t].kind = "scheduled"
    /\ IF ~g.tool_call
       THEN /\ save_chat_message(task[t].session, ChatMessage("assistant", "text", 0, "final"))
            /\ mark_session_unread(task[t].session)
            /\ task' = [task EXCEPT ![t].pc = "final"]
            /\ UNCHANGED <<pending_responses, future, call, observed, sent, audit, approvals>>
       ELSE Execute(t, task[t], g.tool, g.params, "none", approvals)
    /\ UNCHANGED <<active_connections, agent_info, chan, db_agents, replied,
                   security_policy, polVars, active_session_id>>

\* load_chat: the operator opens a session of the list; it is marked read.
load_chat(s) ==
    /\ chat[s] # <<>>
    /\ active_session_id' = s
    /\ mark_session_read(s)
    /\ UNCHANGED <<dispVars, execVars, polVars>>

\* start_new_chat: the page shows no session.
start_new_chat ==
    /\ active_session_id # "none"
    /\ active_session_id' = "none"
    /\ UNCHANGED <<dispVars, execVars, polVars, has_unread>>

\* The policies an operator saves for an agent with save_hitl_policy.
ExecPolicies ==
    {[hitl_enabled |-> TRUE, blocked_commands |-> {},
      requires_approval_for |-> {<<"run_command">>}],
     [hitl_enabled |-> TRUE, blocked_commands |-> {<<"get_system_info">>, <<"rm">>},
      requires_approval_for |-> {<<"uname">>, <<UnknownToolName>>}]}

\* save_hitl_policy -> DataManager.update_agent_policy: only for an Agent row.
\* A run saves the policy of an agent once.
SavePolicy(a, doc) ==
    /\ a \in DOMAIN db_agents
    /\ StoredPolicy(a) = NoPolicy
    /\ security_policy' = Put(security_policy, a, doc)
    /\ UNCHANGED <<dispVars, approvals, chat, task, polVars, viewVars>>

ExecNext ==
    \/ HandshakeAccepted(1, "a1")
    \/ Disconnected(1)
    \/ \E id \in FrameIds, body \in ReplyBodies : Listen(1, id, body)
    \/ \E c \in Calls : TimerFires(c)
    \/ \E doc \in ExecPolicies : SavePolicy("a1", doc)
    \/ \E t \in TaskIds, s \in Sessions : StartChat(t, s)
    \/ \E t \in TaskIds, g \in Generations : Generate(t, g)
    \/ \E t \in TaskIds : ExecResume(t)
    \/ \E t \in TaskIds, aid \in 1..Len(approvals) : Approve(t, aid)
    \/ \E t \in TaskIds, aid \in 1..Len(approvals) : Deny(t, aid)

ExecSpec == Init /\ [][ExecNext]_vars

\* The event loop runs every timer that is due and every coroutine that is
\* ready, and llm_service.generate returns.
ExecLiveSpec ==
    /\ ExecSpec
    /\ \A c \in Calls : WF_vars(TimerFires(c))
    /\ \A t \in TaskIds : WF_vars(ExecResume(t)) /\ WF_vars(\E g \in Generations : Generate(t, g))

(* ------------- episodes while the operator looks elsewhere ------------- *)
\* Chats and scheduled runs while the operator moves between sessions; the agent
\* answers every request by asking for approval.
ViewNext ==
    \/ HandshakeAccepted(1, "a1")
    \/ \E id \in Calls : Listen(1, id, ErrorBody(ApprovalCode, "Action requires approval"))
    \/ \E doc \in ExecPolicies : SavePolicy("a1", doc)
    \/ \E t \in TaskIds, s \in Sessions : StartChat(t, s)
    \/ \E t \in TaskIds, g \in Generations : Generate(t, g)
    \/ \E t \in TaskIds, s \in Sessions : RunJob(t, s)
    \/ \E t \in TaskIds, g \in Generations : JobGenerate(t, g)
    \/ \E t \in TaskIds : ExecResume(t)
    \/ \E s \in Sessions : load_chat(s)
    \/ start_new_chat

ViewSpec == Init /\ [][ViewNext]_vars

(* ------------------- execute on a range of inputs --------------------- *)
\* What save_hitl_policy stores: entries split at commas, stripped, none empty.
PolicyEntries ==
    {<<"rm">>, <<"RM">>, <<"rm", " ", "-rf">>, <<"run_command">>, <<"uname">>,
     <<"list_agents">>, <<"delete_everything">>}
EntryLists == {l \in SUBSET PolicyEntries : Cardinality(l) <= MaxEntries}
PolicyDocs ==
    [hitl_enabled : BOOLEAN, blocked_commands : EntryLists, requires_approval_for : EntryLists]

CommandStrings == {<<"rm", " ", "-rf">>, <<"RM">>, <<" ", "rm", " ">>, <<" ">>, <<"ls">>}
Path == <<"/etc">>
OnAgent(ps) == ps \cup {[agent_id |-> "a1"] @@ p : p \in ps}
\* The argument mappings the generator can give each tool.
ParamsOf(tool) ==
    CASE tool = "run_command" -> OnAgent({<<>>} \cup {[command |-> c] : c \in CommandStrings})
      [] tool \in {"list_files", "read_file"} -> OnAgent({<<>>, [path |-> Path]})
      [] OTHER -> OnAgent({<<>>})
ToolNames == ToolSet \cup {UnknownToolName}

Inputs ==
    {x \in [policy : PolicyDocs \cup {NoPolicy}, tool : ToolNames,
            params : UNION {ParamsOf(t) : t \in ToolNames},
            params2 : UNION {ParamsOf(t) : t \in ToolNames},
            approved_by : {"none", "admin"}] :
        /\ x.params \in ParamsOf(x.tool)
        /\ x.params2 \in ParamsOf(x.tool)
        /\ DOMAIN x.params2 = DOMAIN x.params}

PolicyInit == DispInit /\ ExecInit /\ ViewInit /\ pin \in Inputs /\ pout = NoOutputs

\* The policy check on its own, as one of Allow, Block, Pause.
Decision(stored, tool, params, approved_by) ==
    LET d == policy_check(stored, tool, params, approved_by)
    IN  IF d = Proceed THEN "Allow" ELSE IF d.status = "paused" THEN "Pause" ELSE "Block"

\* tool_executor.execute(tool, params, approved_by) and, at any other time, the
\* same call with a second argument mapping.
Evaluate ==
    /\ pin # NoInput
    /\ pout.first = NoOutput
    /\ pout' = [first |-> [decision |-> Decision(pin.policy, pin.tool, pin.params, pin.approved_by),
                           plan |-> execute(pin.policy, DOMAIN db_agents, pin.tool, pin.params,
                                            pin.approved_by),
                           registry |-> DOMAIN active_connections],
                second |-> pout.second]
    /\ UNCHANGED <<dispVars, execVars, pin, viewVars>>

EvaluateAgain ==
    /\ pin # NoInput
    /\ pout.second = NoOutput
    /\ pout' = [first |-> pout.first,
                second |-> [decision |-> Decision(pin.policy, pin.tool, pin.params2, pin.approved_by),
                            plan |-> execute(pin.policy, DOMAIN db_agents, pin.tool, pin.params2,
                                             pin.approved_by),
                            registry |-> DOMAIN active_connections]]
    /\ UNCHANGED <<dispVars, execVars, pin, viewVars>>

\* tool_executor.execute(tool, params, approved_by) while the policy of the
\* target agent cannot be read.
EvaluateStoreFails ==
    /\ pin # NoInput
    /\ pout.first = NoOutput
    /\ pout' = [first |-> [decision |-> Decision(Unreadable, pin.tool, pin.params, pin.approved_by),
                           plan |-> execute(Unreadable, DOMAIN db_agents, pin.tool, pin.params,
                                            pin.approved_by),
                           registry |-> DOMAIN active_connections],
                second |-> pout.second]
    /\ UNCHANGED <<dispVars, execVars, pin, viewVars>>

\* One call of execute on each input, with the store readable or not.
PolicyFaultNext ==
    \/ Evaluate
    \/ EvaluateStoreFails
    \/ HandshakeAccepted(1, "a1")

PolicyFaultSpec == PolicyInit /\ [][PolicyFaultNext]_vars

\* The registry changes between the two calls: agent a1 connects and disconnects.
PolicyNext ==
    \/ Evaluate
    \/ EvaluateAgain
    \/ HandshakeAccepted(1, "a1")
    \/ Disconnected(1)

PolicySpec == PolicyInit /\ [][PolicyNext]_vars

(* ============================= claims ================================= *)
\* A call is dispatched once send_command has created its future.
Dispatched(c) == future[c].st # "none"
\* The channel a request was written to.
ChannelOf(c) == CHOOSE ch \in Channels : \E f \in sent[ch] : f.id = c
\* The most recent channel that identified as agent a (channels are numbered in
\* the order their handshakes are processed).
NewestChannel(a) ==
    CHOOSE ch \in Channels :
        /\ chan[ch].agent = a
        /\ \A x \in Channels : chan[x].agent = a => x <= ch

(* C1 (as stated): every dispatched call ends with exactly one outcome, and that
   outcome is success, timeout or a disconnect failure. *)
C1_Original ==
    \A c \in Calls :
        (Dispatched(c) /\ call[c].pc = "done")
            => observed[c] \in {<<"success">>, <<"timeout">>, <<"send_failed">>}

(* C1 (amended): every dispatched call ends, and the caller of a dispatched call
   observes exactly one outcome among success, the remote error carried by the
   reply, timeout and failure to transmit: never none, never two. *)
C1_ExactlyOneOutcome ==
    /\ [](\A c \in Calls :
            /\ Len(observed[c]) <= 1
            /\ (Dispatched(c) /\ call[c].pc = "done") =>
                   observed[c] \in {<<"success">>, <<"remote_error">>,
                                    <<"timeout">>, <<"send_failed">>})
    /\ \A c \in Calls : (call[c].pc = "waiting") ~> (call[c].pc = "done")

\* A reply raced the timeout of a call whose agent has since disconnected.
C1_Witness ==
    \E c \in Calls :
        /\ call[c].pc = "done" /\ observed[c] = <<"timeout">>
        /\ c \in replied
        /\ call[c].agent \notin DOMAIN active_connections

(* C2: no call stays pending on a channel whose connection has been lost: the
   disconnect resolves it (with AgentDisconnected) at once. *)
C2_DisconnectResolvesPending ==
    \A c \in Calls :
        (call[c].pc = "waiting" /\ future[c].st = "pending")
            => chan[ChannelOf(c)].pc # "closed"

(* C7: the registry maps an agent id to one channel, the one registered last for
   that id, and a dispatch to that id writes its request to that channel only. *)
C7_OneConnectionNewestWins ==
    /\ [](\A a \in DOMAIN active_connections : active_connections[a] = NewestChannel(a))
    /\ [][\A c \in Calls :
            (call[c].pc = "unissued" /\ call'[c].pc = "waiting") =>
                \A ch \in Channels :
                    IF ch = NewestChannel(call'[c].agent)
                    THEN sent'[ch] # sent[ch] /\ \A f \in sent'[ch] \ sent[ch] : f.id = c
                    ELSE sent'[ch] = sent[ch]]_vars

\* Two channels identified as one agent, both loops alive, and a request went
\* out on the later one.
C7_Witness ==
    \E a \in Agents, c1, c2 \in Channels :
        /\ c1 < c2 /\ chan[c1].agent = a /\ chan[c2].agent = a
        /\ chan[c1].pc = "listening" /\ chan[c2].pc = "listening"
        /\ a \in DOMAIN active_connections /\ active_connections[a] = c2
        /\ sent[c2] # {}

(* C8: processing a reply whose id matches no PendingCall changes neither the
   PendingCall map nor any call's future, position or outcome. *)
C8_UnknownReplyDiscarded ==
    [][\A ch \in Channels, id \in FrameIds, body \in PlainBodies :
          (id \notin pending_responses /\ Listen(ch, id, body))
              => UNCHANGED <<pending_responses, future, call, observed>>]_vars

\* A late reply for a timed-out call was processed while an earlier call waited.
C8_Witness ==
    \E c, d \in Calls :
        /\ d < c /\ call[d].pc = "waiting" /\ future[d].st = "pending"
        /\ observed[c] = <<"timeout">> /\ audit[c] = "success"

(* C9: a dispatched call that gets no reply ends, and ends with the timeout
   failure; once a call has ended its id is not in the PendingCall map, and a
   reply for it that arrives later raises nothing and resolves nothing. *)
C9_TimeoutThenLateReplyIgnored ==
    /\ \A c \in Calls : (call[c].pc = "waiting") ~> (call[c].pc = "done")
    /\ [](\A c \in Calls :
            /\ call[c].pc = "done" => c \notin pending_responses
            /\ (call[c].pc = "done" /\ c \notin replied /\ observed[c] # <<"send_failed">>
                    /\ Dispatched(c)) => observed[c] = <<"timeout">>
            /\ call[c].pc = "done" => ~ResolveRaises(c))
    /\ [][\A ch \in Channels, c \in Calls, body \in PlainBodies :
            (call[c].pc = "done" /\ Listen(ch, c, body))
                => UNCHANGED <<pending_responses, future, call, observed>>]_vars

\* A call timed out and a reply for it was processed after send_command ended.
C9_Witness ==
    \E c \in Calls :
        /\ call[c].pc = "done" /\ observed[c] = <<"timeout">>
        /\ audit[c] = "success"

(* --------------------------- policy claims ---------------------------- *)
\* The policy of the input is enabled and is consulted for a target agent.
Enabled(x) == x.policy # NoPolicy /\ x.policy.hitl_enabled /\ HasAgentId(x.params)
\* The tool name or a resolved command is an entry of the list.
Listed(tool, params, entries) ==
    \/ <<Lower(tool)>> \in Normalized(entries)
    \/ \E i \in DOMAIN ToolCommands(tool, params) :
          ToolCommands(tool, params)[i] \in Normalized(entries)
RequiresApproval(x) == Listed(x.tool, x.params, x.policy.requires_approval_for)
Blocked(x) == Listed(x.tool, x.params, x.policy.blocked_commands)
Made(o) == o # NoOutput

\* C5, as stated: with hitl_enabled true and approved_by unset, a tool whose name
\* or resolved command is in requires_approval_for is decided Pause, whatever
\* blocked_commands holds.
C5_Original ==
    (Made(pout.first) /\ Enabled(pin) /\ pin.approved_by = "none" /\ RequiresApproval(pin))
        => pout.first.decision = "Pause"

\* C5, amended: the same for every tool but the exempt list_agents; for a tool of
\* the catalog execute returns the paused result and makes no call.
C5_PauseBeforeBlock ==
    (Made(pout.first) /\ Enabled(pin) /\ pin.approved_by = "none" /\ RequiresApproval(pin)
        /\ pin.tool # "list_agents")
        => /\ pout.first.decision = "Pause"
           /\ pin.tool \in ToolSet =>
                 pout.first.plan.kind = "return" /\ pout.first.plan.result.status = "paused"

\* C5 witness: a command in requires_approval_for whose tool is in
\* blocked_commands has been decided Pause.
C5_Witness ==
    /\ Made(pout.first) /\ Enabled(pin) /\ pin.approved_by = "none"
    /\ pin.tool = "run_command"
    /\ RequiresApproval(pin) /\ Blocked(pin)
    /\ pin.policy.requires_approval_for = {<<"RM">>}
    /\ pin.policy.blocked_commands = {<<"run_command">>}
    /\ pout.first.decision = "Pause"

\* C6: two policy evaluations for the same agent, policy document, tool and
\* pre-approved flag whose argument mappings resolve to the same commands have
\* the same decision, whatever the registry holds at either evaluation; and an
\* evaluation changes no state of the dispatcher, the approvals or the chats.
C6_DecisionIsFunctionOfInputs ==
    /\ [](Made(pout.first) /\ Made(pout.second)
            /\ ToolCommands(pin.tool, pin.params) = ToolCommands(pin.tool, pin.params2)
          => pout.first.decision = pout.second.decision)
    /\ [][pout' # pout => UNCHANGED <<dispVars, execVars>>]_vars

\* C6 witness: two command lines with the same first token, evaluated with
\* different registries, were both decided Pause.
C6_Witness ==
    /\ Made(pout.first) /\ Made(pout.second)
    /\ pin.params # pin.params2
    /\ ToolCommands(pin.tool, pin.params) = ToolCommands(pin.tool, pin.params2)
    /\ pout.first.registry # pout.second.registry
    /\ pout.first.decision = "Pause"
    /\ pout.second.decision = "Pause"
    /\ ~Listed(pin.tool, <<>>, pin.policy.requires_approval_for)

(* -------------------------- approval claims --------------------------- *)
\* Coroutine t starts in this step as the approve or deny handler of aid.
Decides(t, aid) ==
    /\ task[t].pc = "idle"
    /\ task'[t].kind \in {"approve", "deny"}
    /\ task'[t].aid = aid
ApprovalIds == 1..(3 * MaxTasks)

\* C3: an approve or deny on a PendingApproval that is already approved or
\* rejected is a no-op: the status stays, no row and no chat message is written,
\* no tool is executed and nothing is sent.
C3_DecidedApprovalIsFinal ==
    [][\A t \in TaskIds, aid \in ApprovalIds :
          (aid \in DOMAIN approvals /\ approvals[aid].status # "pending" /\ Decides(t, aid))
              => /\ UNCHANGED <<approvals, chat, dispVars>>
                 /\ task'[t].pc \notin {"generate", "execute"}]_vars

\* C4: approving a pending PendingApproval whose agent is connected proceeds to
\* dispatch: a request for the recorded tool is sent to the agent, whatever the
\* agent's policy says at that time.
C4_ApprovalProceedsToDispatch ==
    [][\A t \in TaskIds, aid \in ApprovalIds :
          (/\ aid \in DOMAIN approvals /\ approvals[aid].status = "pending"
           /\ Decides(t, aid) /\ task'[t].kind = "approve"
           /\ HasAgentId(approvals[aid].arguments)
           /\ ~RaisesAtOnce(approvals[aid].arguments.agent_id)
           /\ NextCall # 0)
              => /\ task'[t].pc = "execute"
                 /\ task'[t].tool = approvals[aid].tool_name
                 /\ task'[t].params = approvals[aid].arguments
                 /\ task'[t].approved_by = "admin"
                 /\ call'[NextCall].pc = "waiting"]_vars

\* C10: a tool call the generator makes with a name that is not in the catalog
\* gets the error result that lists the catalog, whatever the policy of the
\* target agent lists; the loop goes on, nothing is sent, no PendingCall,
\* AuditLog row, PendingApproval or chat message is written.
C10_UnknownToolIsAnError ==
    [][\A t \in TaskIds :
          Generate(t, ToolCall(UnknownToolName, [agent_id |-> "a1"]))
              => /\ task'[t].result.status = "error"
                 /\ task'[t].result.about = <<UnknownToolName>> \o ValidTools
                 /\ task'[t].pc \in {"generate", "aborted"}
                 /\ UNCHANGED <<dispVars, approvals, chat>>]_vars

\* C10 witness: a loop resumed under a policy that lists the unknown name in
\* requires_approval_for was given the unknown-tool error.
C10_Witness ==
    \E t \in TaskIds :
        /\ task[t].kind = "approve" /\ task[t].turn >= 1
        /\ task[t].result.about = <<UnknownToolName>> \o ValidTools
        /\ StoredPolicy("a1") # NoPolicy
        /\ <<UnknownToolName>> \in StoredPolicy("a1").requires_approval_for

(* ------------------------ executor and loop claims -------------------- *)
\* The policy and the tool call of the run_command scenario.
RunPolicy ==
    [hitl_enabled |-> TRUE, blocked_commands |-> {},
     requires_approval_for |-> {<<"run_command">>}]
RunCall == ToolCall("run_command", [agent_id |-> "a1", command |-> <<"rm", " ", "-rf">>])
\* Coroutine t starts in this step as the approve handler of the pending approval aid.
Approves(t, aid) ==
    /\ aid \in DOMAIN approvals
    /\ approvals[aid].status = "pending"
    /\ Decides(t, aid)
    /\ task'[t].kind = "approve"

\* C11: with a1 connected under the policy that requires approval for
\* run_command, executing run_command pauses and creates a pending
\* PendingApproval; approving it sends a request with method tool.execute and
\* tool_name run_command on a1's connection.
C11_ApprovedRunCommandIsSent ==
    [][/\ \A t \in TaskIds :
            (StoredPolicy("a1") = RunPolicy /\ Generate(t, RunCall))
                => /\ task'[t].result.status = "paused"
                   /\ Len(approvals') = Len(approvals) + 1
                   /\ approvals'[Len(approvals')].status = "pending"
       /\ \A t \in TaskIds, aid \in ApprovalIds :
            (/\ Approves(t, aid)
             /\ approvals[aid].tool_name = "run_command"
             /\ StoredPolicy("a1") = RunPolicy
             /\ ~RaisesAtOnce("a1")
             /\ NextCall # 0)
                => \E f \in sent'[active_connections["a1"]] \ sent[active_connections["a1"]] :
                      f.method = "tool.execute" /\ f.tool_name = "run_command"]_vars

\* AGENT_TOOLS: the required parameters of each tool of the catalog.
RequiredArgs(tool) ==
    CASE tool = "run_command" -> {"agent_id", "command"}
      [] tool \in {"list_files", "read_file"} -> {"agent_id", "path"}
      [] tool \in {"get_system_info", "get_agent_details"} -> {"agent_id"}
      [] OTHER -> {}
MissingArgument(tool, params) == tool \in ToolSet /\ ~(RequiredArgs(tool) \subseteq DOMAIN params)

\* C12: execute of a catalog tool with a required argument missing returns an
\* error result and makes no call of the dispatcher, for every policy of the
\* target agent: the result is an error, not a pause.
C12_MissingArgumentIsAnError ==
    (Made(pout.first) /\ MissingArgument(pin.tool, pin.params))
        => /\ pout.first.plan.kind = "return"
           /\ pout.first.plan.result.status = "error"

BlockReasons == {"tool is blocked by security policy", "command is blocked by security policy"}
\* The stored policy of the target agent is enabled and lists the tool name or
\* a resolved command of the call in blocked_commands and none in
\* requires_approval_for.
PolicyBlocks(g) ==
    /\ g.tool_call /\ g.tool \in ToolSet /\ HasAgentId(g.params)
    /\ PolicyFor(g.params) # NoPolicy
    /\ PolicyFor(g.params).hitl_enabled
    /\ Listed(g.tool, g.params, PolicyFor(g.params).blocked_commands)
    /\ ~Listed(g.tool, g.params, PolicyFor(g.params).requires_approval_for)

\* C13: a tool call that the policy blocks gets an error result that carries
\* the policy reason; no request is sent, no PendingApproval is written by the
\* executor or by the loop, and the loop goes on.
C13_BlockIsAnErrorResult ==
    [][\A t \in TaskIds, g \in Generations :
          (task[t].pc = "generate" /\ task'[t] # task[t] /\ Generate(t, g) /\ PolicyBlocks(g))
              => /\ task'[t].result.status = "error"
                 /\ task'[t].result.message \in BlockReasons
                 /\ task'[t].pc \in {"generate", "aborted"}
                 /\ UNCHANGED <<dispVars, approvals, chat>>]_vars

\* C13 witness: a loop was given the blocked-command error for its run_command.
C13_Witness ==
    \E t \in TaskIds :
        /\ task[t].kind = "chat" /\ task[t].turn >= 1
        /\ task[t].result.message \in BlockReasons
        /\ task[t].result.about = << <<"rm">>, "a1" >>
        /\ approvals = <<>>

\* The listen loop gives the reply body to the waiting future of call c in this step.
Correlates(c, body) ==
    /\ c \in pending_responses
    /\ future[c].st = "pending"
    /\ Listen(1, c, body)

\* C14: when the reply correlated to a dispatched call is an error with code
\* -32001, execute returns the paused result, whatever the message text is; with
\* any other error code it returns an error result.
C14_ApprovalCodeMeansPause ==
    [][\A c \in Calls, m \in ErrorMessages, code \in ErrorCodes :
          Correlates(c, ErrorBody(code, m))
              => (ExecuteResult(c, call[c].agent, Outcome(future[c])))'.status
                    = IF code = ApprovalCode THEN "paused" ELSE "error"]_vars

(* -------------------------- dispatcher claims ------------------------- *)
\* C15: send_command for an agent id that has no entry in the registry raises
\* the not-connected error at once: the call has ended, no request id is added
\* to the PendingCall map, no future is created, no frame is sent and no
\* AuditLog row is written.
C15_NotConnectedFailsAtOnce ==
    [][\A c \in Calls, a \in Agents :
          (a \notin DOMAIN active_connections /\ Dispatch(c, a))
              => /\ observed'[c] = <<"not_connected">>
                 /\ call'[c].pc = "done"
                 /\ UNCHANGED <<pending_responses, future, sent, audit>>]_vars

\* C15 witness: a call to an agent that is not registered failed while a call
\* to a registered agent waits.
C15_Witness ==
    \E c, d \in Calls :
        /\ observed[c] = <<"not_connected">> /\ call[c].pc = "done"
        /\ c \notin DOMAIN audit /\ c \notin pending_responses
        /\ call[d].pc = "waiting" /\ d \in DOMAIN audit

(* ---------------------------- loop claims ----------------------------- *)
InfoCall == ToolCall("get_system_info", [agent_id |-> "a1"])

\* What the loop holds after execute ended with a dispatcher failure whose
\* exception message is msg: an error result with the message, one turn used,
\* the next turn started unless the turns are used up; when the message asks for
\* approval the result is the pause instead.
FailureObserved(t, msg) ==
    IF MentionsApproval(msg)
    THEN task'[t].result.status = "paused" /\ task'[t].pc = "paused"
    ELSE /\ task'[t].result = Result("error", "Execution failed", <<msg>>)
         /\ task'[t].turn = task[t].turn + 1
         /\ task'[t].pc = IF task[t].turn + 1 >= MaxTurns THEN "aborted" ELSE "generate"
         /\ UNCHANGED <<approvals, chat>>

PauseRow(t, aid) ==
    /\ aid \in DOMAIN approvals
    /\ approvals[aid].writer = "loop"
    /\ approvals[aid].session_id = task[t].session
    /\ (HasCard(aid) \/ approvals[aid].status # "pending")

\* C17: the loop stops on a pause only after it has inserted the PendingApproval
\* row with status pending: the step that suspends the loop leaves the row, for
\* the paused tool, its arguments and the conversation, as the last row of the
\* table; rows are never removed, so every suspended loop has its row.
C17_PendingPersistedBeforePause ==
    [][/\ \A t \in TaskIds :
            (task[t].pc # "paused" /\ task'[t].pc = "paused")
                => /\ Len(approvals') > Len(approvals)
                   /\ approvals'[Len(approvals')].status = "pending"
                   /\ approvals'[Len(approvals')].writer = "loop"
                   /\ approvals'[Len(approvals')].session_id = task'[t].session
                   /\ \E g \in Generations :
                        /\ approvals'[Len(approvals')].tool_name = g.tool
                        /\ approvals'[Len(approvals')].arguments = g.params
                   /\ (\E aid \in DOMAIN approvals : PauseRow(t, aid))'
       /\ \A t \in TaskIds :
            (task[t].pc = "paused")
                => /\ task'[t].pc = "paused"
                   /\ Len(approvals') >= Len(approvals)
                   /\ \E aid \in DOMAIN approvals : PauseRow(t, aid) /\ (PauseRow(t, aid))']_vars

\* C17 witness: a loop is suspended on a policy pause and its row is pending.
C17_Witness ==
    \E t \in TaskIds :
        /\ task[t].pc = "paused" /\ task[t].result.status = "paused"
        /\ Len(approvals) >= 1
        /\ approvals[Len(approvals)].status = "pending"
        /\ approvals[Len(approvals)].writer = "loop"
        /\ approvals[Len(approvals)].session_id = task[t].session
        /\ HasCard(Len(approvals))

\* The request coroutine t has in flight for the tool of an approved row.
ApprovedRequest(t) ==
    /\ task[t].kind = "approve" /\ task[t].pc = "execute"
    /\ task[t].call \in Calls

\* C18: handle_approve sets the PendingApproval to approved before it executes
\* the recorded tool: the step of the approval leaves the row approved, whether
\* or not a request is sent in it, and while a request for an approved action
\* is in flight its row is not pending.
C18_ApprovedBeforeExecuted ==
    [][/\ \A t \in TaskIds, aid \in ApprovalIds :
            (task[t].pc = "idle" /\ aid \in DOMAIN approvals /\ Approve(t, aid))
                => /\ approvals'[aid].status = "approved"
                   /\ (ApprovedRequest(t))' =>
                         \E f \in sent'[1] \ sent[1] : f.id = task'[t].call
       /\ \A t \in TaskIds :
            (ApprovedRequest(t))' => approvals'[task'[t].aid].status # "pending"]_vars

\* C18 witness: the request of an approved get_system_info is in flight and the
\* row is approved.
C18_Witness ==
    \E t \in TaskIds :
        /\ ApprovedRequest(t)
        /\ approvals[task[t].aid].status = "approved"
        /\ approvals[task[t].aid].tool_name = "get_system_info"
        /\ \E f \in sent[1] : f.id = task[t].call
        /\ future[task[t].call].st = "pending"

DeniedMessage(aid) == ChatMessage("assistant", "approval_result", aid, "denied")

Running(t) == task[t].pc \in {"generate", "execute"}
Ended(t) == task[t].pc \in {"final", "paused", "aborted"}

\* The generator invocations of the episode of coroutine t so far: one for each
\* completed tool turn, and the one that ended it with an answer or a pause.
Invocations(t) ==
    task[t].turn + (IF task[t].pc \in {"final", "paused"} THEN 1 ELSE 0)

HistoryWindow == 12

\* handle_approve rebuilds loop_messages from get_chat_messages(session): the
\* last HistoryWindow ChatMessage rows, an approval_result row re-formatted as
\* {"role": "system", "content": "Observation: ..."}, every other row as it is.
Rebuilt(s) ==
    LET h == chat[s]
        first == IF Len(h) > HistoryWindow THEN Len(h) - HistoryWindow + 1 ELSE 1
    IN [i \in 1..(Len(h) - first + 1) |->
            LET m == h[first + i - 1] IN
            IF m.type = "approval_result"
            THEN [role |-> "system", type |-> "approval_observation", approval_id |-> m.approval_id]
            ELSE [role |-> m.role, type |-> m.type, approval_id |-> m.approval_id]]

\* The tool turns in loop_messages when the loop of coroutine t stopped: each
\* turn that did not pause appended the tool call and its Observation.
SeenToolTurns(t) == task[t].turn

\* The tool calls and observations of ordinary turns in a rebuilt history.
ToolTurnsIn(h) ==
    Cardinality({i \in DOMAIN h : h[i].type \in {"tool_call", "observation"}})

\* handle_approve has executed the approved tool and starts _run_agent_loop.
Resumes(t) ==
    /\ task[t].pc \in {"idle", "execute"}
    /\ task'[t].kind = "approve" /\ task'[t].pc = "generate"

\* C21: the history handle_approve gives to the generator on resume is rebuilt
\* from the saved conversation of the approval's session and holds every tool
\* call and observation the generator saw before the pause (stated for the
\* first pause of a conversation, where the suspended loop is the one resumed).
C21_ResumeHistoryIsComplete ==
    [][\A t, u \in TaskIds :
          (/\ Resumes(t)
           /\ Len(approvals') = 1 /\ task'[t].aid = 1
           /\ task[u].pc = "paused" /\ task[u].session = task'[t].session)
              => /\ (ToolTurnsIn(Rebuilt(task[u].session)))' >= 2 * SeenToolTurns(u)
                 /\ \E i \in DOMAIN (Rebuilt(task[u].session))' :
                       (Rebuilt(task[u].session))'[i].type = "approval_observation"]_vars

(* --------------------------- policy claims ---------------------------- *)
\* The policy check is switched off for the call: nothing is stored for the
\* agent, or the stored document has hitl_enabled false.
SwitchedOff(x) == x.policy = NoPolicy \/ ~x.policy.hitl_enabled

\* C22: with no stored policy, or with hitl_enabled false, the decision is
\* Allow for every tool and argument mapping, whatever the two lists contain:
\* execute returns neither a pause nor a block.
C22_DisabledPolicyAllows ==
    (Made(pout.first) /\ SwitchedOff(pin))
        => /\ pout.first.decision = "Allow"
           /\ pout.first.plan.result.status # "paused"
           /\ pout.first.plan.result.message \notin BlockReasons

\* C22 witness: hitl_enabled is false, both lists name the command of the call,
\* and the call was allowed.
C22_Witness ==
    /\ Made(pout.first) /\ pin.policy # NoPolicy /\ ~pin.policy.hitl_enabled
    /\ pin.approved_by = "none" /\ HasAgentId(pin.params)
    /\ pin.tool = "run_command"
    /\ Listed(pin.tool, pin.params, pin.policy.blocked_commands)
    /\ Listed(pin.tool, pin.params, pin.policy.requires_approval_for)
    /\ pout.first.decision = "Allow"

(* -------------------------- handshake claims -------------------------- *)
\* status.WS_1008_POLICY_VIOLATION, status.WS_1003_UNSUPPORTED_DATA
PolicyViolation == "1008"
UnsupportedData == "1003"

\* What the first frame of a connection can be when it is not a valid
\* agent.identify, and the code websocket_endpoint closes with.
BadFirstFrames == {"malformed_json", "wrong_method", "bad_params", "invalid_agent", "no_frame"}
CloseCodeFor(frame) ==
    CASE frame = "malformed_json" -> UnsupportedData
      [] frame = "wrong_method" -> PolicyViolation
      [] frame \in {"bad_params", "invalid_agent"} -> UnsupportedData
      [] frame = "no_frame" -> "1011"

ProtocolViolations == {"malformed_json", "wrong_method"}
Rejects(ch, frame) == chan[ch].pc = "new" /\ HandshakeRejected(ch, CloseCodeFor(frame))
NeverRegistered(ch) == \A a \in DOMAIN active_connections : active_connections[a] # ch

C24_DisconnectChangesOnlyRegistry ==
    [][\A ch \in Channels :
          (chan[ch].pc = "listening" /\ Disconnected(ch))
              => /\ active_connections' = Drop(active_connections, chan[ch].agent)
                 /\ \A a \in DOMAIN agent_info' \ {chan[ch].agent} :
                       a \in DOMAIN agent_info /\ agent_info'[a] = agent_info[a]
                 /\ UNCHANGED <<pending_responses, future, call, observed, sent, audit>>]_vars

\* C24 witness: a call dispatched on a connection is still outstanding, its
\* future pending, after the connection ended and the agent was unregistered.
C24_Witness ==
    \E c \in Calls, ch \in Channels :
        /\ call[c].pc = "waiting" /\ c \in pending_responses /\ future[c].st = "pending"
        /\ \E f \in sent[ch] : f.id = c
        /\ chan[ch].pc = "closed" /\ chan[ch].code = "peer"
        /\ call[c].agent \notin DOMAIN active_connections

(* ------------------------- conversation claims ------------------------ *)
\* _run_agent_loop is in progress in coroutine t: it awaits the generator, or
\* the tool it called.
LoopRunning(t) ==
    \/ task[t].pc = "generate"
    \/ task[t].pc = "execute" /\ task[t].approved_by = "none"

LoopsOf(s) == {t \in TaskIds : LoopRunning(t) /\ task[t].session = s}

\* C25: at no time are two executions of the agent loop in progress for the
\* same conversation.
C25_OneLoopPerConversation ==
    \A s \in Sessions : Cardinality(LoopsOf(s)) <= 1

(* ------------------------- correlation claims ------------------------- *)
\* The calls outstanding on channel ch: sent on it, in the PendingCall map, not
\* yet resolved.
Outstanding(ch) ==
    {c \in pending_responses : future[c].st = "pending" /\ \E f \in sent[ch] : f.id = c}

\* C26: several calls may be outstanding on one connection, and a reply resolves
\* the call whose request id it carries and no other, whatever the dispatch
\* order: a call dispatched later is resolved while an earlier one still waits,
\* and the earlier one stays as it was.
C26_RepliesResolveInAnyOrder ==
    [][\A ch \in Channels, id \in Calls, body \in PlainBodies :
          (/\ chan[ch].pc = "listening" /\ id \in pending_responses
           /\ future[id].st = "pending"
           /\ Listen(ch, id, body))
              => /\ future'[id] = Resolved(body)
                 /\ \A d \in Calls \ {id} : future'[d] = future[d]
                 /\ UNCHANGED <<pending_responses, call, observed>>]_vars

\* C26 witness: two calls were outstanding on one connection; the one
\* dispatched second has returned its result while the first still waits.
C26_Witness ==
    \E ch \in Channels :
        /\ \A c \in Calls : \E f \in sent[ch] : f.id = c
        /\ 1 \in Outstanding(ch) /\ call[1].pc = "waiting"
        /\ call[2].pc = "done" /\ observed[2] = <<"success">>

\* Request id was written to a connection other than ch.
SentElsewhere(id, ch) ==
    /\ ~(\E f \in sent[ch] : f.id = id)
    /\ \E other \in Channels \ {ch} : \E f \in sent[other] : f.id = id

\* C27: correlation is by request id alone: a reply with the id of an
\* outstanding call resolves that call when it is delivered by the receive
\* loop of a connection the request was not sent on, such as the connection
\* the agent registered after a reconnect.
C27_CorrelationIgnoresConnection ==
    [][\A ch \in Channels, id \in Calls, body \in PlainBodies :
          (/\ chan[ch].pc = "listening" /\ id \in pending_responses
           /\ future[id].st = "pending"
           /\ SentElsewhere(id, ch)
           /\ Listen(ch, id, body))
              => /\ future'[id] = Resolved(body)
                 /\ audit' = AuditUpdate(id, body)]_vars

\* C27 witness: the request went out on a connection that has ended; the agent
\* registered again on a new connection and the call has its reply.
C27_Witness ==
    \E id \in Calls, ch \in Channels :
        /\ chan[ch].pc = "listening" /\ SentElsewhere(id, ch)
        /\ chan[ch].agent \in DOMAIN active_connections
        /\ active_connections[chan[ch].agent] = ch
        /\ \E old \in Channels : chan[old].pc = "closed" /\ chan[old].code = "peer"
                                   /\ \E f \in sent[old] : f.id = id
        /\ id \in replied /\ future[id].st = "result"
        /\ observed[id] = <<"success">>

(* ------------------------- PendingCall claims ------------------------- *)
\* The send_command invocations in progress (suspended in wait_for).
InProgress == {c \in Calls : call[c].pc = "waiting"}

\* C28: the PendingCall map holds exactly the request ids of the send_command
\* invocations in progress: once send_command has returned or raised (result,
\* remote error, timeout, send failure, agent not connected) its id is absent,
\* and the map is empty when no invocation is in progress; an entry is removed
\* only by the invocation that made it, when it ends, and is never put back.
C28_PendingEntryRemovedOnce ==
    /\ [](pending_responses = InProgress)
    /\ [][\A c \in Calls :
             /\ (c \in pending_responses /\ c \notin pending_responses')
                    => /\ call[c].pc = "waiting" /\ call'[c].pc = "done"
                       /\ Len(observed'[c]) = 1
             /\ call[c].pc = "done" => call'[c].pc = "done" /\ c \notin pending_responses']_vars

\* C28 witness: one call ended by timeout and one by a remote error, and the
\* map is empty.
C28_Witness ==
    /\ pending_responses = {}
    /\ \E c, d \in Calls :
          /\ call[c].pc = "done" /\ observed[c] = <<"timeout">>
          /\ call[d].pc = "done" /\ observed[d] = <<"remote_error">>

\* A reply for request id arrives on ch while the entry is still in the map but
\* its future is already resolved or cancelled by the timeout.
LateForSlot(ch, id, body) ==
    /\ chan[ch].pc = "listening"
    /\ id \in pending_responses /\ future[id].st # "pending"
    /\ Listen(ch, id, body)

\* C29: a reply that arrives after the slot of its call is resolved or timed
\* out, and before the caller removed the entry, is absorbed by a
\* single-resolution guard: resolve_response does not raise, the outcome the
\* caller will observe is unchanged, and the listen loop processes the frame
\* to its end, the AuditLog update included.
C29_LateReplyIsGuarded ==
    [][\A ch \in Channels, id \in Calls, body \in PlainBodies :
          LateForSlot(ch, id, body)
              => /\ ~ResolveRaises(id)
                 /\ future'[id] = future[id]
                 /\ audit' = AuditUpdate(id, body)]_vars

(* ---------------------------- audit claims ---------------------------- *)
\* C30: the AuditLog row of a request is created pending at dispatch and goes
\* to success or error only when a reply is correlated to the PendingCall of
\* its id; a reply that matches no PendingCall changes no row, so no row shows
\* success for a call whose caller observed the timeout.
C30_AuditFollowsCorrelation ==
    /\ [](\A c \in Calls :
             (observed[c] = <<"timeout">> /\ c \in DOMAIN audit) => audit[c] # "success")
    /\ [][/\ \A c \in Calls, a \in Agents :
               (a \in DOMAIN active_connections /\ Dispatch(c, a))
                   => c \notin DOMAIN audit /\ audit' = Put(audit, c, "pending")
          /\ \A ch \in Channels, id \in FrameIds, body \in PlainBodies :
               (chan[ch].pc = "listening" /\ id \notin pending_responses
                /\ Listen(ch, id, body))
                   => audit' = audit
          /\ audit' # audit =>
               \/ \E c \in Calls, a \in Agents : Dispatch(c, a)
               \/ \E ch \in Channels, id \in Calls, body \in PlainBodies :
                     /\ id \in pending_responses /\ future[id].st = "pending"
                     /\ Listen(ch, id, body)]_vars

(* -------------------------- approval claims --------------------------- *)
\* C31: the status of a PendingApproval moves only from pending to approved or
\* from pending to rejected; a decided row never changes again, and no row is
\* ever deleted or replaced.
C31_StatusMovesOnce ==
    [][/\ Len(approvals') >= Len(approvals)
       /\ \A aid \in DOMAIN approvals :
            /\ approvals'[aid].status # approvals[aid].status
                   => /\ approvals[aid].status = "pending"
                      /\ approvals'[aid].status \in {"approved", "rejected"}
            /\ approvals'[aid] = [approvals[aid] EXCEPT !.status = approvals'[aid].status]]_vars

(* --------------------------- history claims --------------------------- *)
\* A turn of the loop of coroutine t ends in this step with a normal tool
\* result: the turn counter advances.
TurnCompletes(t) ==
    /\ task[t].pc \in {"generate", "execute"}
    /\ task'[t].turn = task[t].turn + 1

\* C32: when a turn ends with a tool call and a normal result, the assistant
\* tool-call turn and the observation turn are saved to the conversation, in
\* that order, before the generator is invoked again.
C32_ToolTurnIsPersisted ==
    [][\A t \in TaskIds :
          TurnCompletes(t)
              => LET s == task[t].session
                     n == Len(chat[s])
                 IN /\ Len(chat'[s]) = n + 2
                    /\ chat'[s][n + 1].role = "assistant" /\ chat'[s][n + 1].type = "tool_call"
                    /\ chat'[s][n + 2].role = "system" /\ chat'[s][n + 2].type = "observation"]_vars

\* handle_approve of coroutine t moves in this step: it is started, or its
\* execute is resumed.
ApproveMoves(t) ==
    /\ task[t].pc = "idle" \/ (task[t].pc = "execute" /\ task[t].approved_by = "admin")
    /\ task'[t].kind = "approve"
    /\ task'[t] # task[t]

PausesUnseen(t) ==
    /\ task[t].pc \in {"generate", "execute"}
    /\ task'[t].pc = "paused"
    /\ task[t].kind = "scheduled" \/ ~user_still_here(task[t].session)

\* C34: when an episode pauses for approval while no operator is viewing its
\* conversation (a scheduled run, or a chat whose session is not the active
\* one), the step inserts a pending PendingApproval of that session, saves the
\* approval-request turn carrying its id, and leaves the session marked unread.
C34_PauseUnseenMarksUnread ==
    [][\A t \in TaskIds : PausesUnseen(t)
          => LET s == task[t].session  aid == Len(approvals')
             IN  /\ aid = Len(approvals) + 1 \/ aid = Len(approvals) + 2
                 /\ approvals'[aid].status = "pending"
                 /\ approvals'[aid].session_id = s
                 /\ Len(chat'[s]) = Len(chat[s]) + 1
                 /\ chat'[s][Len(chat'[s])].type = "approval_request"
                 /\ chat'[s][Len(chat'[s])].approval_id = aid
                 /\ has_unread'[s]]_vars

\* A chat and a scheduled run have both paused in a session the operator left.
C34_Witness ==
    /\ \E t \in TaskIds : task[t].kind = "chat" /\ task[t].pc = "paused"
          /\ active_session_id # task[t].session /\ has_unread[task[t].session]
    /\ \E t \in TaskIds : task[t].kind = "scheduled" /\ task[t].pc = "paused"
          /\ has_unread[task[t].session]
    /\ Cardinality({aid \in DOMAIN approvals : approvals[aid].status = "pending"}) >= 2

(* ------------------ failures of the generator and the store ----------- *)
\* llm_service.generate raises in a turn of _run_agent_loop: the handler logs
\* the error and renders an error card if the operator still views the chat;
\* it saves nothing.
GenerateRaises(t) ==
    /\ task[t].pc = "generate"
    /\ task[t].kind # "scheduled"
    /\ task' = [task EXCEPT ![t].pc = "failed"]
    /\ UNCHANGED <<dispVars, security_policy, approvals, chat, polVars, viewVars>>

\* save_chat_message raises at a pause: the PendingApproval was committed in
\* its own transaction before, and the same handler ends the loop.
PauseSaveRaises(t, g) ==
    /\ task[t].pc = "generate"
    /\ task[t].kind # "scheduled"
    /\ g.tool_call
    /\ LET plan == execute(PolicyFor(g.params), DOMAIN db_agents, g.tool, g.params, "none")
       IN  /\ plan.kind = "return"
           /\ plan.result.status = "paused"
           /\ approvals' = Append(approvals, PendingApproval(g.tool, g.params, task[t].session, "loop"))
           /\ task' = [task EXCEPT ![t] = [@ EXCEPT !.pc = "failed", !.result = plan.result]]
    /\ UNCHANGED <<dispVars, security_policy, chat, polVars, viewVars>>

\* Chats in which the generator or the store can fail.
FaultNext ==
    \/ HandshakeAccepted(1, "a1")
    \/ \E doc \in ExecPolicies : SavePolicy("a1", doc)
    \/ \E t \in TaskIds, s \in Sessions : StartChat(t, s)
    \/ \E t \in TaskIds, g \in Generations : Generate(t, g)
    \/ \E t \in TaskIds : GenerateRaises(t)
    \/ \E t \in TaskIds, g \in Generations : PauseSaveRaises(t, g)
    \/ \E s \in Sessions : load_chat(s)
    \/ start_new_chat

FaultSpec == Init /\ [][FaultNext]_vars

\* The turn of coroutine t is aborted by an exception in this step.
TurnFails(t) == task[t].pc # "failed" /\ task'[t].pc = "failed"
\* Row aid is pending and its session holds its approval request.
Consistent(rows, msgs, aid) ==
    rows[aid].status = "pending" /\ rows[aid].session_id \in Sessions
        => \E i \in DOMAIN msgs[rows[aid].session_id] :
              /\ msgs[rows[aid].session_id][i].type = "approval_request"
              /\ msgs[rows[aid].session_id][i].approval_id = aid

\* C35: when the generator or a persistence write raises during a turn, the
\* turn ends with an error turn the operator can see (shown on the page, or
\* saved to the session), the turns saved before are unchanged, and every
\* pending PendingApproval of a session has an approval-request turn there
\* that carries its id.
C35_FailureIsVisibleAndConsistent ==
    [][\A t \in TaskIds : TurnFails(t)
          => LET s == task[t].session
             IN  /\ SubSeq(chat'[s], 1, Len(chat[s])) = chat[s]
                 /\ \/ user_still_here(s)
                    \/ /\ Len(chat'[s]) > Len(chat[s])
                       /\ chat'[s][Len(chat'[s])].type = "error"
                 /\ \E rows \in {approvals'}, msgs \in {chat'} :
                       \A aid \in DOMAIN rows : Consistent(rows, msgs, aid)]_vars

(* ----------------------- command-matching claims ---------------------- *)
\* The first whitespace-delimited token of a command line (<<>> when it has none).
FirstWord(line) ==
    IF \E i \in DOMAIN line : line[i] # Blank
    THEN <<line[CHOOSE i \in DOMAIN line :
                   line[i] # Blank /\ \A j \in 1..(i - 1) : line[j] = Blank]>>
    ELSE <<>>
\* Word w equals policy entry e up to case and surrounding whitespace.
Matches(w, e) == w # <<>> /\ StrLower(w) = StrLower(Strip(e))
\* The decision the first token of a run_command line calls for, when it
\* matches an entry of blocked_commands.
TokenRule(policy, params, out) ==
    (/\ Made(out)
     /\ "command" \in DOMAIN params
     /\ \E e \in policy.blocked_commands : Matches(FirstWord(params.command), e))
        => out.decision =
              IF \E e \in policy.requires_approval_for :
                    Matches(FirstWord(params.command), e) \/ Matches(<<"run_command">>, e)
              THEN "Pause" ELSE "Block"

\* C36: for run_command with hitl_enabled and approved_by unset, a command line
\* whose first whitespace-delimited token equals an entry of blocked_commands
\* up to case and surrounding whitespace is decided Block, or Pause when the
\* token or the tool name is matched by requires_approval_for, whatever
\* follows the first token.
C36_FirstTokenDecides ==
    (Enabled(pin) /\ pin.approved_by = "none" /\ pin.tool = "run_command")
        => /\ TokenRule(pin.policy, pin.params, pout.first)
           /\ TokenRule(pin.policy, pin.params2, pout.second)

\* C36 witness: "rm -rf" and " rm " were both decided Block by the entry "RM".
C36_Witness ==
    /\ Made(pout.first) /\ Made(pout.second)
    /\ Enabled(pin) /\ pin.approved_by = "none" /\ pin.tool = "run_command"
    /\ pin.policy.blocked_commands = {<<"RM">>}
    /\ pin.policy.requires_approval_for = {}
    /\ "command" \in DOMAIN pin.params
    /\ pin.params.command = <<"rm", " ", "-rf">>
    /\ pin.params2.command = <<" ", "rm", " ">>
    /\ pout.first.decision = "Block" /\ pout.second.decision = "Block"

(* -------------------------- reconnect claims -------------------------- *)
\* The receive loop of ch ends in this step after another channel was
\* registered for its agent.
SupersededEnds(ch) ==
    /\ chan[ch].pc = "listening"
    /\ chan'[ch].pc = "closed"
    /\ chan[ch].agent \in DOMAIN active_connections
    /\ active_connections[chan[ch].agent] # ch
    /\ chan[active_connections[chan[ch].agent]].pc = "listening"

\* C37: after a reconnect in which ch2 was registered for agent a while ch1 was
\* still registered, the end of ch1's receive loop leaves a registered with
\* ch2: the registry keeps mapping a to ch2 and a stays online.
C37_SupersededEndKeepsNewer ==
    [][\A ch \in Channels : SupersededEnds(ch)
          => LET a == chan[ch].agent
             IN  /\ a \in DOMAIN active_connections'
                 /\ active_connections'[a] = active_connections[a]
                 /\ agent_info'[a] = "online"
                 /\ db_agents'[a] = "online"]_vars

\* C38: a connection entry exists in the registry only while that connection's
\* receive loop is running: the registry maps no agent id to a channel whose
\* handler has ended (failed handshake, failure to record the agent in the
\* store after the in-memory registration, disconnect, error).
C38_RegistryHoldsLiveChannelsOnly ==
    \A a \in DOMAIN active_connections : chan[active_connections[a]].pc # "closed"

(* ------------------------ pause-record claims ------------------------- *)
\* The invocation of coroutine t ends in a pause in this step.
Pauses(t) == task[t].pc \in {"generate", "execute"} /\ task'[t].pc = "paused"

\* C39: each Pause outcome of one tool invocation creates exactly one
\* PendingApproval, written by the loop and linked to the owning session; the
\* executor only signals paused and writes no PendingApproval itself, for a
\* local policy Pause and for an agent-side approval-required error alike.
C39_OneRecordPerPause ==
    [][\A t \in TaskIds : Pauses(t)
          => /\ Len(approvals') = Len(approvals) + 1
             /\ approvals'[Len(approvals')].writer = "loop"
             /\ approvals'[Len(approvals')].session_id = task[t].session
             /\ \A aid \in DOMAIN approvals' : approvals'[aid].writer # "executor"]_vars

(* --------------------------- dispatch claims -------------------------- *)
\* C40: no request is sent to an agent for an invocation with approved_by unset
\* whose target agent's stored policy has hitl_enabled and lists the tool name
\* or a resolved command in requires_approval_for or blocked_commands, also
\* when reading or evaluating the policy fails.
C40_ListedIsNeverSent ==
    (Made(pout.first) /\ Enabled(pin) /\ pin.approved_by = "none"
        /\ (RequiresApproval(pin) \/ Blocked(pin)))
        => pout.first.plan.kind # "dispatch"

====
